---- MODULE Spec2Model ----
(***************************************************************************)
(* Decremental single-source bounded-distance structure (DynamicSSSP of    *)
(* bfs_tree.cpp) over the PriorityStructure of priority_struct_TAS.cpp.    *)
(* batchDelete is modelled step by step: one action per iteration of each  *)
(* of its loops.  The only scheduling freedom is the iteration order of    *)
(* the unordered set U inside a phase.                                     *)
(***************************************************************************)
EXTENDS Integers, Sequences, FiniteSets, TLC

VARIABLES
    n, L, s,          \* DynamicSSSP::n, L, s (fixed by the constructor)
    Dist,             \* std::vector<int> Dist
    Out,              \* out-adjacency lists
    In,               \* In[v]: PriorityStructure (root of its segment tree)
    Scan,             \* rank cursor into In[v]
    Parent,           \* parent map of T (-1 = no parent)
    Tv,               \* child lists of T
    alive,            \* live-edge set of encoded (u,v) keys
    pc,               \* position inside batchDelete ("idle" between calls)
    delEdges,         \* argument of the running batchDelete
    idx,              \* first-pass loop position in delEdges
    parentDeleted,    \* local std::vector<bool> parentDeleted
    treeEdges,        \* local treeEdges
    tidx,             \* second-pass loop position in treeEdges
    U, Unew,          \* local suspect sets
    i,                \* phase counter
    todo,             \* elements of U the phase loop has not visited yet
    calls,            \* number of batchDelete calls the driver makes
    nbatch,           \* number of batchDelete calls started (history)
    pre,              \* the fields as they were when the running call began (history)
    ps,               \* a PriorityStructure<int> driven through its public API
    last,             \* the last API call on ps: arguments, outcome, ps before it (history)
    contents,         \* priority -> value map ps is meant to hold (history)
    valid,            \* ps was built by an initialize that met its input constraint (history)
    nupd              \* updateValue / updatePriority calls since the last initialize (history)

psVars == <<ps, last, contents, valid, nupd>>

vars == <<n, L, s, Dist, Out, In, Scan, Parent, Tv, alive, pc, delEdges, idx,
          parentDeleted, treeEdges, tidx, U, Unew, i, todo,
          calls, nbatch, pre, psVars>>

(***************************************************************************)
(* Bounds of the model.                                                    *)
(***************************************************************************)
N == 4              \* vertices of the generated graphs
MaxEdges == 4       \* edges of the generated graphs
MaxL == 2           \* largest depth bound L
MaxBatchLen == 2    \* entries of one delete batch
MaxBatches == 2     \* batchDelete calls in one run

NoParent == 0 - 1   \* the -1 of Parent.assign(n, -1)

Min(S) == CHOOSE x \in S : \A y \in S : x <= y

Pow2(k) == 2 ^ k    \* 1 << k

(***************************************************************************)
(* PriorityStructure: a segment tree over priorities 1..maxP.  A node is   *)
(* a record; NilNode is the null pointer.                                  *)
(***************************************************************************)
NilNode == [nil |-> TRUE]

MkNode(c, p, v, l, r) ==
    [nil |-> FALSE, cnt |-> c, present |-> p, value |-> v, left |-> l, right |-> r]

NodeCnt(node) == IF node.nil THEN 0 ELSE node.cnt

\* A PriorityStructure object: maxP and the root pointer.
MkPS(maxP, root) == [maxP |-> maxP, root |-> root]

size(self) == IF self.root.nil THEN 0 ELSE self.root.cnt

\* std::sort of (value, priority) pairs by priority (priorities distinct).
SortByPriority(elems) ==
    LET P == {elems[k][2] : k \in DOMAIN elems}
    IN  [k \in 1..Len(elems) |->
            CHOOSE e \in {elems[j] : j \in DOMAIN elems} :
                Cardinality({q \in P : q < e[2]}) = k - 1]

\* Variant of LowerBound that splits after the priorities equal to bound
\* (std::upper_bound).
LowerBoundInclusive(items, start, end, bound) ==
    start + Cardinality({j \in start..(end - 1) : items[j + 1][2] <= bound})

\* std::lower_bound over items[start..end) for priority >= bound (0-based).
LowerBound(items, start, end, bound) ==
    start + Cardinality({j \in start..(end - 1) : items[j + 1][2] < bound})

RECURSIVE buildFromSorted(_, _, _, _, _)
buildFromSorted(items, start, end, lo, hi) ==
    IF start >= end THEN NilNode
    ELSE IF lo = hi
         THEN MkNode(end - start, TRUE, items[start + 1][1], NilNode, NilNode)
         ELSE LET mid == (lo + hi) \div 2
                  m   == LowerBound(items, start, end, mid + 1)
              IN  MkNode(end - start, FALSE, 0,
                         buildFromSorted(items, start, m, lo, mid),
                         buildFromSorted(items, m, end, mid + 1, hi))

\* The outcomes std::sort may produce: the orderings of elems by priority
\* (pairs of equal priority end up in some order).  rest is the set of
\* positions of elems not placed yet.
RECURSIVE SortingsOf(_, _)
SortingsOf(elems, rest) ==
    IF rest = {} THEN {<<>>}
    ELSE LET least == {a \in rest : \A b \in rest : elems[a][2] <= elems[b][2]}
         IN  UNION {{<<elems[a]>> \o tl : tl \in SortingsOf(elems, rest \ {a})} :
                       a \in least}

Sortings(elems) == SortingsOf(elems, DOMAIN elems)

\* initialize once std::sort has produced items.
initializeSorted(maxP, elems, items) ==
    IF Len(elems) = 0 THEN MkPS(maxP, NilNode)
    ELSE MkPS(maxP, buildFromSorted(items, 0, Len(items), 1, maxP))

initialize(maxP, elems) == initializeSorted(maxP, elems, SortByPriority(elems))

\* The value thrown queries return here: std::logic_error / std::out_of_range.
Thrown == 0 - 2

\* Variant of queryByRank that counts ranks from the left (smallest priority
\* first).
RECURSIVE queryByRankLeftFirst(_, _, _, _)
queryByRankLeftFirst(node, lo, hi, k) ==
    IF node.nil \/ k < 1 \/ k > NodeCnt(node) THEN Thrown
    ELSE IF lo = hi THEN node.value
    ELSE LET mid == (lo + hi) \div 2
             leftCount == NodeCnt(node.left)
         IN  IF leftCount >= k
             THEN queryByRankLeftFirst(node.left, lo, mid, k)
             ELSE queryByRankLeftFirst(node.right, mid + 1, hi, k - leftCount)

RECURSIVE queryByRank(_, _, _, _)
queryByRank(node, lo, hi, k) ==
    IF node.nil \/ k < 1 \/ k > NodeCnt(node) THEN Thrown
    ELSE IF lo = hi THEN node.value
    ELSE LET mid == (lo + hi) \div 2
             rightCount == NodeCnt(node.right)
         IN  IF rightCount >= k
             THEN queryByRank(node.right, mid + 1, hi, k)
             ELSE queryByRank(node.left, lo, mid, k - rightCount)

query(self, k) ==
    IF k < 1 \/ k > size(self) THEN Thrown
    ELSE queryByRank(self.root, 1, self.maxP, k)

\* Variant of nextWithRange that keeps the last match of the range, not the
\* smallest.
nextWithRangeLast(self, lo, hi, f) ==
    IF size(self) = 0 THEN 1
    ELSE LET hits == {j \in lo..hi : f[query(self, j)]}
         IN  IF hits = {} THEN size(self) + 1
             ELSE CHOOSE j \in hits : \A h \in hits : h <= j

\* f is the predicate, given as a function over the stored values.
nextWithRange(self, lo, hi, f) ==
    IF size(self) = 0 THEN 1
    ELSE Min({j \in lo..hi : f[query(self, j)]} \cup {size(self) + 1})

RECURSIVE nextWithLoop(_, _, _, _)
nextWithLoop(self, p, k, f) ==
    IF p > size(self) THEN size(self) + 1
    ELSE LET len  == Pow2(k)
             end0 == p + len - 1
             end  == IF end0 > size(self) THEN size(self) ELSE end0
             best == nextWithRange(self, p, end, f)
         IN  IF best <= end THEN best
             ELSE nextWithLoop(self, p + len, k + 1, f)

nextWith(self, k, f) ==
    IF size(self) = 0 THEN 1
    ELSE LET p == IF k < 1 THEN 1 ELSE k
         IN  IF p > size(self) THEN size(self) + 1
             ELSE nextWithLoop(self, p, 0, f)

\* What a call that may throw hands back: thrown, or the result.
Throw == [thrown |-> TRUE]

RECURSIVE updateValueHelper(_, _, _, _, _)
updateValueHelper(node, lo, hi, k, v) ==
    IF node.nil \/ k < 1 \/ k > NodeCnt(node) THEN [thrown |-> TRUE, node |-> node]
    ELSE IF lo = hi THEN [thrown |-> FALSE, node |-> [node EXCEPT !.value = v]]
    ELSE LET mid == (lo + hi) \div 2
             rightCount == NodeCnt(node.right)
         IN  IF rightCount >= k
             THEN LET r == updateValueHelper(node.right, mid + 1, hi, k, v)
                  IN  [thrown |-> r.thrown, node |-> [node EXCEPT !.right = r.node]]
             ELSE LET r == updateValueHelper(node.left, lo, mid, k - rightCount, v)
                  IN  [thrown |-> r.thrown, node |-> [node EXCEPT !.left = r.node]]

updateValue(self, k, v) ==
    IF k < 1 \/ k > size(self) THEN [thrown |-> TRUE, ps |-> self]
    ELSE LET r == updateValueHelper(self.root, 1, self.maxP, k, v)
         IN  [thrown |-> r.thrown, ps |-> MkPS(self.maxP, r.node)]

\* Variant of findByPriority that does not count the right subtree when it
\* descends to the left.
RECURSIVE findByPriorityNoRightCount(_, _, _, _, _)
findByPriorityNoRightCount(node, lo, hi, p, rank) ==
    IF node.nil \/ NodeCnt(node) = 0 THEN Throw
    ELSE IF lo = hi
         THEN IF node.cnt = 0 \/ ~node.present THEN Throw
              ELSE [thrown |-> FALSE, value |-> node.value, rank |-> rank + 1]
         ELSE LET mid == (lo + hi) \div 2
              IN  IF p <= mid
                  THEN findByPriorityNoRightCount(node.left, lo, mid, p, rank)
                  ELSE findByPriorityNoRightCount(node.right, mid + 1, hi, p, rank)

RECURSIVE findByPriority(_, _, _, _, _)
findByPriority(node, lo, hi, p, rank) ==
    IF node.nil \/ NodeCnt(node) = 0 THEN Throw
    ELSE IF lo = hi
         THEN IF node.cnt = 0 \/ ~node.present THEN Throw
              ELSE [thrown |-> FALSE, value |-> node.value, rank |-> rank + 1]
         ELSE LET mid == (lo + hi) \div 2
              IN  IF p <= mid
                  THEN findByPriority(node.left, lo, mid, p,
                                      rank + NodeCnt(node.right))
                  ELSE findByPriority(node.right, mid + 1, hi, p, rank)

find(self, p) ==
    IF p < 1 \/ p > self.maxP THEN Throw
    ELSE findByPriority(self.root, 1, self.maxP, p, 0)

\* ensureNode: a null pointer becomes a fresh Node() (cnt 0, not present).
ensureNode(node) ==
    IF node.nil THEN MkNode(0, FALSE, 0, NilNode, NilNode) ELSE node

RECURSIVE insert(_, _, _, _, _)
insert(node, lo, hi, p, v) ==
    LET nd == [ensureNode(node) EXCEPT !.cnt = @ + 1]
    IN  IF lo = hi THEN [nd EXCEPT !.present = TRUE, !.value = v]
        ELSE LET mid == (lo + hi) \div 2
             IN  IF p <= mid
                 THEN [nd EXCEPT !.left = insert(nd.left, lo, mid, p, v)]
                 ELSE [nd EXCEPT !.right = insert(nd.right, mid + 1, hi, p, v)]

\* Variant of erase that leaves the leaf's present flag set.
RECURSIVE eraseKeepPresent(_, _, _, _)
eraseKeepPresent(node, lo, hi, k) ==
    LET nd == [node EXCEPT !.cnt = @ - 1]
    IN  IF lo = hi
        THEN [value |-> node.value, node |-> nd]
        ELSE LET mid == (lo + hi) \div 2
                 rightCount == NodeCnt(node.right)
             IN  IF rightCount >= k
                 THEN LET r == eraseKeepPresent(node.right, mid + 1, hi, k)
                      IN  [value |-> r.value, node |-> [nd EXCEPT !.right = r.node]]
                 ELSE LET r == eraseKeepPresent(node.left, lo, mid, k - rightCount)
                      IN  [value |-> r.value, node |-> [nd EXCEPT !.left = r.node]]

\* erase returns the erased value; the node it leaves behind comes with it.
\* Its caller has checked 1 <= k <= cnt, so the descent never meets a null
\* pointer.
RECURSIVE erase(_, _, _, _)
erase(node, lo, hi, k) ==
    LET nd == [node EXCEPT !.cnt = @ - 1]
    IN  IF lo = hi
        THEN [value |-> node.value, node |-> [nd EXCEPT !.present = FALSE]]
        ELSE LET mid == (lo + hi) \div 2
                 rightCount == NodeCnt(node.right)
             IN  IF rightCount >= k
                 THEN LET r == erase(node.right, mid + 1, hi, k)
                      IN  [value |-> r.value, node |-> [nd EXCEPT !.right = r.node]]
                 ELSE LET r == erase(node.left, lo, mid, k - rightCount)
                      IN  [value |-> r.value, node |-> [nd EXCEPT !.left = r.node]]

RECURSIVE presentPriority(_, _, _, _)
presentPriority(node, lo, hi, p) ==
    IF node.nil THEN FALSE
    ELSE IF lo = hi THEN node.present
    ELSE LET mid == (lo + hi) \div 2
         IN  IF p <= mid THEN presentPriority(node.left, lo, mid, p)
             ELSE presentPriority(node.right, mid + 1, hi, p)

\* Variant of updatePriority that erases the element before it looks whether
\* the new priority is taken.
updatePriorityEraseFirst(self, k, newP) ==
    IF k < 1 \/ k > size(self) THEN [thrown |-> TRUE, ps |-> self]
    ELSE IF newP < 1 \/ newP > self.maxP THEN [thrown |-> TRUE, ps |-> self]
    ELSE LET e == erase(self.root, 1, self.maxP, k)
         IN  IF presentPriority(e.node, 1, self.maxP, newP)
             THEN [thrown |-> TRUE, ps |-> MkPS(self.maxP, e.node)]
             ELSE [thrown |-> FALSE,
                   ps |-> MkPS(self.maxP, insert(e.node, 1, self.maxP, newP, e.value))]

\* Variant of updatePriority that inserts the new priority without erasing
\* the old one.
updatePriorityWithoutErase(self, k, newP) ==
    IF k < 1 \/ k > size(self) THEN [thrown |-> TRUE, ps |-> self]
    ELSE IF newP < 1 \/ newP > self.maxP THEN [thrown |-> TRUE, ps |-> self]
    ELSE IF presentPriority(self.root, 1, self.maxP, newP) THEN [thrown |-> TRUE, ps |-> self]
    ELSE [thrown |-> FALSE,
          ps |-> MkPS(self.maxP, insert(self.root, 1, self.maxP, newP, query(self, k)))]

updatePriority(self, k, newP) ==
    IF k < 1 \/ k > size(self) THEN [thrown |-> TRUE, ps |-> self]
    ELSE IF newP < 1 \/ newP > self.maxP THEN [thrown |-> TRUE, ps |-> self]
    ELSE IF presentPriority(self.root, 1, self.maxP, newP) THEN [thrown |-> TRUE, ps |-> self]
    ELSE LET e == erase(self.root, 1, self.maxP, k)
         IN  [thrown |-> FALSE,
              ps |-> MkPS(self.maxP, insert(e.node, 1, self.maxP, newP, e.value))]


(***************************************************************************)
(* bfs_array: layered BFS up to depth L.                                   *)
(***************************************************************************)
SeqRange(q) == {q[k] : k \in DOMAIN q}

\* Variant of bfsLevels without the test dist[u] > i + 1: every out-neighbour
\* of the current level is given the next level's distance.
RECURSIVE bfsLevelsNoVisitedTest(_, _, _, _, _)
bfsLevelsNoVisitedTest(adj, dist, curr, lvl, LL) ==
    IF lvl >= LL \/ curr = {} THEN dist
    ELSE LET next == {u \in DOMAIN dist : \E v \in curr : u \in SeqRange(adj[v])}
         IN  bfsLevelsNoVisitedTest(adj,
                       [u \in DOMAIN dist |-> IF u \in next THEN lvl + 1 ELSE dist[u]],
                       next, lvl + 1, LL)

RECURSIVE bfsLevels(_, _, _, _, _)
bfsLevels(adj, dist, curr, lvl, LL) ==
    IF lvl >= LL \/ curr = {} THEN dist
    ELSE LET next == {u \in DOMAIN dist :
                        /\ \E v \in curr : u \in SeqRange(adj[v])
                        /\ dist[u] > lvl + 1}
         IN  bfsLevels(adj,
                       [u \in DOMAIN dist |-> IF u \in next THEN lvl + 1 ELSE dist[u]],
                       next, lvl + 1, LL)

\* Variant of bfs_array whose level loop runs one level short (i < L - 1).
bfs_arrayOneLevelShort(adj, src, LL) ==
    LET dist0 == [v \in DOMAIN adj |-> IF v = src THEN 0 ELSE LL + 1]
    IN  bfsLevels(adj, dist0, {src}, 0, LL - 1)

bfs_array(adj, src, LL) ==
    LET dist0 == [v \in DOMAIN adj |-> IF v = src THEN 0 ELSE LL + 1]
    IN  bfsLevels(adj, dist0, {src}, 0, LL)

(***************************************************************************)
(* DynamicSSSP                                                             *)
(***************************************************************************)
\* (u << 32) ^ (unsigned) v: u is the high word, v the low word of the key.
encodeEdge(u, v) == <<u, v>>

\* std::remove + erase: drop every occurrence of x.
RemoveAll(q, x) == SelectSeq(q, LAMBDA y : y # x)

\* Variant of predicate that does not consult the live-edge set.
predicateIgnoringAlive(dist, al, v) ==
    [w \in DOMAIN dist |-> dist[w] = dist[v] - 1]

\* The NextWith predicate of vertex v (the three lambdas of bfs_tree.cpp).
predicate(dist, al, v) ==
    [w \in DOMAIN dist |-> dist[w] = dist[v] - 1 /\ encodeEdge(w, v) \in al]

RECURSIVE initScanLoop(_, _, _, _, _, _)
initScanLoop(v, LL, dist, in, al, acc) ==
    IF v >= Len(in) THEN acc
    ELSE IF dist[v] = 0 \/ dist[v] > LL
         THEN initScanLoop(v + 1, LL, dist, in, al, acc)
         ELSE LET inV == in[v + 1]
                  pos == nextWith(inV, 1, predicate(dist, al, v))
                  sz  == size(inV)
              IN  IF pos >= 1 /\ pos <= sz
                  THEN LET w == query(inV, pos)
                       IN  initScanLoop(v + 1, LL, dist, in, al,
                              [acc EXCEPT !.Scan[v] = pos,
                                          !.Parent[v] = w,
                                          !.Tv[w] = Append(@, v)])
                  ELSE initScanLoop(v + 1, LL, dist, in, al,
                              [acc EXCEPT !.Scan[v] = sz + 1,
                                          !.Parent[v] = NoParent])

\* in is the vector In as a sequence (In[v] is in[v + 1]).
initScanAndTree(nn, LL, dist, in, al) ==
    initScanLoop(0, LL, dist, in, al,
                 [Scan   |-> [v \in 0..(nn - 1) |-> 0],
                  Parent |-> [v \in 0..(nn - 1) |-> NoParent],
                  Tv     |-> [v \in 0..(nn - 1) |-> <<>>]])

\* adjOutInv[v]: the in-neighbours of v in increasing order of u.
adjOutInv(adj, nn, v) ==
    SelectSeq([k \in 1..nn |-> k - 1], LAMBDA u : v \in SeqRange(adj[u]))

\* The constructor: every field of a freshly built DynamicSSSP.
Construct(adj, src, LL) ==
    LET nn   == Cardinality(DOMAIN adj)
        dist == bfs_array(adj, src, LL)
        in   == [k \in 1..nn |->
                    LET inv == adjOutInv(adj, nn, k - 1)
                    IN  initialize(nn, [j \in 1..Len(inv) |-> <<inv[j], inv[j] + 1>>])]
        al   == UNION {{encodeEdge(u, adj[u][k]) : k \in DOMAIN adj[u]} : u \in DOMAIN adj}
        t    == initScanAndTree(nn, LL, dist, in, al)
    IN  [n |-> nn, L |-> LL, s |-> src, Dist |-> dist, Out |-> adj,
         In |-> [v \in 0..(nn - 1) |-> in[v + 1]], alive |-> al,
         Scan |-> t.Scan, Parent |-> t.Parent, Tv |-> t.Tv]

(***************************************************************************)
(* batchDelete, one operator per loop body.  A loop body maps the fields   *)
(* and locals it touches, held in a record, to their new values.           *)
(***************************************************************************)
Fields ==
    [Dist |-> Dist, Out |-> Out, Scan |-> Scan, Parent |-> Parent, Tv |-> Tv,
     alive |-> alive, parentDeleted |-> parentDeleted, treeEdges |-> treeEdges,
     U |-> U, Unew |-> Unew]

\* Variant of Pass1Body that marks only tree edges dead.
Pass1BodyTreeEdgesOnly(st, e) ==
    LET u == e[1]
        v == e[2]
    IN  IF u < 0 \/ u >= n \/ v < 0 \/ v >= n THEN st
        ELSE IF encodeEdge(u, v) \notin st.alive THEN st
        ELSE IF st.Parent[v] = u
             THEN [st EXCEPT !.alive = @ \ {encodeEdge(u, v)},
                             !.Out[u] = RemoveAll(@, v),
                             !.treeEdges = Append(@, <<u, v>>),
                             !.parentDeleted[v] = TRUE,
                             !.Tv[u] = RemoveAll(@, v),
                             !.Parent[v] = NoParent]
             ELSE st

\* Variant of Pass1Body that leaves v in the Children list of its old parent.
Pass1BodyKeepChild(st, e) ==
    LET u == e[1]
        v == e[2]
    IN  IF u < 0 \/ u >= n \/ v < 0 \/ v >= n THEN st
        ELSE IF encodeEdge(u, v) \notin st.alive THEN st
        ELSE LET st1 == [st EXCEPT !.alive = @ \ {encodeEdge(u, v)},
                                   !.Out[u] = RemoveAll(@, v)]
             IN  IF st.Parent[v] = u
                 THEN [st1 EXCEPT !.treeEdges = Append(@, <<u, v>>),
                                  !.parentDeleted[v] = TRUE,
                                  !.Parent[v] = NoParent]
                 ELSE st1

\* Body of the first-pass loop for the batch entry e = (u, v).
Pass1Body(st, e) ==
    LET u == e[1]
        v == e[2]
    IN  IF u < 0 \/ u >= n \/ v < 0 \/ v >= n THEN st
        ELSE IF encodeEdge(u, v) \notin st.alive THEN st
        ELSE LET st1 == [st EXCEPT !.alive = @ \ {encodeEdge(u, v)},
                                   !.Out[u] = RemoveAll(@, v)]
             IN  IF st.Parent[v] = u
                 THEN [st1 EXCEPT !.treeEdges = Append(@, <<u, v>>),
                                  !.parentDeleted[v] = TRUE,
                                  !.Tv[u] = RemoveAll(@, v),
                                  !.Parent[v] = NoParent]
                 ELSE st1

\* Variant of Pass2Body that leaves the parent-deleted flag set.
Pass2BodyKeepFlag(st, e) ==
    LET v  == e[2]
        sc == nextWith(In[v], st.Scan[v], predicate(st.Dist, st.alive, v))
    IN  IF sc # size(In[v]) + 1
        THEN LET w == query(In[v], sc)
             IN  [st EXCEPT !.Scan[v] = sc,
                            !.Parent[v] = w,
                            !.Tv[w] = Append(@, v)]
        ELSE [st EXCEPT !.Scan[v] = sc]

\* Variant of Pass2Body that re-parents v without storing the new cursor.
Pass2BodyKeepScan(st, e) ==
    LET v  == e[2]
        sc == nextWith(In[v], st.Scan[v], predicate(st.Dist, st.alive, v))
    IN  IF sc # size(In[v]) + 1
        THEN LET w == query(In[v], sc)
             IN  [st EXCEPT !.Parent[v] = w,
                            !.Tv[w] = Append(@, v),
                            !.parentDeleted[v] = FALSE]
        ELSE [st EXCEPT !.Scan[v] = sc]

\* Variant of Pass2Body that resets the cursor to 1 when no parent is found.
Pass2BodyResetOnMiss(st, e) ==
    LET v  == e[2]
        sc == nextWith(In[v], st.Scan[v], predicate(st.Dist, st.alive, v))
    IN  IF sc # size(In[v]) + 1
        THEN LET w == query(In[v], sc)
             IN  [st EXCEPT !.Scan[v] = sc,
                            !.Parent[v] = w,
                            !.Tv[w] = Append(@, v),
                            !.parentDeleted[v] = FALSE]
        ELSE [st EXCEPT !.Scan[v] = 1]

\* Variant of Pass2Body that raises Dist[v] at once when no parent is found.
Pass2BodyEagerDist(st, e) ==
    LET v  == e[2]
        sc == nextWith(In[v], st.Scan[v], predicate(st.Dist, st.alive, v))
    IN  IF sc # size(In[v]) + 1
        THEN LET w == query(In[v], sc)
             IN  [st EXCEPT !.Scan[v] = sc,
                            !.Parent[v] = w,
                            !.Tv[w] = Append(@, v),
                            !.parentDeleted[v] = FALSE]
        ELSE [st EXCEPT !.Scan[v] = sc,
                        !.Dist[v] = IF @ <= L THEN @ + 1 ELSE @]

\* Body of the second-pass loop for the tree edge e = (u, v).
Pass2Body(st, e) ==
    LET v  == e[2]
        sc == nextWith(In[v], st.Scan[v], predicate(st.Dist, st.alive, v))
    IN  IF sc # size(In[v]) + 1
        THEN LET w == query(In[v], sc)
             IN  [st EXCEPT !.Scan[v] = sc,
                            !.Parent[v] = w,
                            !.Tv[w] = Append(@, v),
                            !.parentDeleted[v] = FALSE]
        ELSE [st EXCEPT !.Scan[v] = sc]

\* Variant of PhaseBody that forgets line 11 (the children are not suspected).
PhaseBodyWithoutChildren(st, v) ==
    LET sc == nextWith(In[v], st.Scan[v], predicate(st.Dist, st.alive, v))
    IN  IF sc = size(In[v]) + 1
        THEN [st EXCEPT !.Scan[v] = 1,
                        !.Unew = @ \cup {v},
                        !.Tv[v] = <<>>]
        ELSE LET w == query(In[v], sc)
             IN  [st EXCEPT !.Scan[v] = sc,
                            !.Parent[v] = w,
                            !.Tv[w] = Append(@, v)]

\* Body of the phase loop "for (int v : U)" (lines 6-11 of Algorithm 1).
PhaseBody(st, v) ==
    LET sc == nextWith(In[v], st.Scan[v], predicate(st.Dist, st.alive, v))
    IN  IF sc = size(In[v]) + 1
        THEN [st EXCEPT !.Scan[v] = 1,
                        !.Unew = @ \cup {v} \cup SeqRange(st.Tv[v]),
                        !.Tv[v] = <<>>]
        ELSE LET w == query(In[v], sc)
             IN  [st EXCEPT !.Scan[v] = sc,
                            !.Parent[v] = w,
                            !.Tv[w] = Append(@, v)]

\* Variant of SeedBody that seeds the flagged vertices one layer too early.
SeedBodyNextLayer(st, ph) ==
    [st EXCEPT !.Unew = @ \cup {v \in 0..(n - 1) :
                                  st.Dist[v] = ph + 2 /\ st.parentDeleted[v]}]

\* Variant of SeedBody that seeds every vertex at distance ph + 1.
SeedBodyWholeLayer(st, ph) ==
    [st EXCEPT !.Unew = @ \cup {v \in 0..(n - 1) : st.Dist[v] = ph + 1}]

\* Line 12: seed Unew with the vertices at distance ph + 1 that lost their parent.
SeedBody(st, ph) ==
    [st EXCEPT !.Unew = @ \cup {v \in 0..(n - 1) :
                                   st.Dist[v] = ph + 1 /\ st.parentDeleted[v]}]

\* Variant of FinalizeBody that writes ph instead of ph + 1.
FinalizeBodyOffByOne(st, ph) ==
    [st EXCEPT !.U = st.Unew,
               !.Unew = {},
               !.Dist = [v \in 0..(n - 1) |->
                            IF v \in st.Unew THEN ph ELSE st.Dist[v]]]

\* Lines 13-15: U.swap(Unew), then Dist[v] = ph + 1 for every v in U.
FinalizeBody(st, ph) ==
    [st EXCEPT !.U = st.Unew,
               !.Unew = {},     \* the swapped-out set dies with the loop body
               !.Dist = [v \in 0..(n - 1) |->
                            IF v \in st.Unew THEN ph + 1 ELSE st.Dist[v]]]

SetFields(st) ==
    /\ Dist' = st.Dist
    /\ Out' = st.Out
    /\ Scan' = st.Scan
    /\ Parent' = st.Parent
    /\ Tv' = st.Tv
    /\ alive' = st.alive
    /\ parentDeleted' = st.parentDeleted
    /\ treeEdges' = st.treeEdges
    /\ U' = st.U
    /\ Unew' = st.Unew

(***************************************************************************)
(* A whole batchDelete call as a function of the fields f and the batch D: *)
(* the loop bodies applied in list order, U visited in increasing order.   *)
(***************************************************************************)
RECURSIVE pass1From(_, _, _)
pass1From(st, D, k) ==
    IF k > Len(D) THEN st ELSE pass1From(Pass1Body(st, D[k]), D, k + 1)

RECURSIVE pass2From(_, _)
pass2From(st, k) ==
    IF k > Len(st.treeEdges) THEN st
    ELSE pass2From(Pass2Body(st, st.treeEdges[k]), k + 1)

RECURSIVE visitAll(_, _)
visitAll(st, S) ==
    IF S = {} THEN st
    ELSE LET v == Min(S) IN visitAll(PhaseBody(st, v), S \ {v})

RECURSIVE phasesFrom(_, _)
phasesFrom(st, ph) ==
    IF ph > L THEN st
    ELSE phasesFrom(FinalizeBody(SeedBody(visitAll(st, st.U), ph), ph), ph + 1)

batchDelete(f, D) ==
    LET st0 == [Dist |-> f.Dist, Out |-> f.Out, Scan |-> f.Scan,
                Parent |-> f.Parent, Tv |-> f.Tv, alive |-> f.alive,
                parentDeleted |-> [v \in 0..(n - 1) |-> FALSE],
                treeEdges |-> <<>>, U |-> {}, Unew |-> {}]
        r   == phasesFrom(pass2From(pass1From(st0, D, 1), 1), 0)
    IN  [Dist |-> r.Dist, Out |-> r.Out, Scan |-> r.Scan, Parent |-> r.Parent,
         Tv |-> r.Tv, alive |-> r.alive]

\* What a caller can observe between calls (and the out-adjacency).
Snapshot ==
    [Dist |-> Dist, Out |-> Out, Scan |-> Scan, Parent |-> Parent, Tv |-> Tv,
     alive |-> alive]

(***************************************************************************)
(* Inputs: the graphs handed to the constructor and the delete batches.    *)
(***************************************************************************)
\* Candidate edges of the generated graphs: a diamond 0->{1,2}->3, the two
\* edges between its middle vertices, and a self-loop on the source.
EdgeUniverse ==
    {<<0, 0>>, <<0, 1>>, <<0, 2>>, <<1, 2>>, <<2, 1>>, <<1, 3>>, <<2, 3>>}

Graphs == {g \in SUBSET EdgeUniverse : Cardinality(g) <= MaxEdges}

\* adjOut of the edge set g: each list in increasing order.
AdjOf(g, nn) ==
    [u \in 0..(nn - 1) |->
        SelectSeq([k \in 1..nn |-> k - 1], LAMBDA v : <<u, v>> \in g)]

\* The edges the structure was built from (In is never mutated).
InitialEdges ==
    UNION {{<<query(In[v], k), v>> : k \in 1..size(In[v])} : v \in 0..(n - 1)}

\* Batch entries: edges of the initial graph (live or already dead) and one
\* pair whose first vertex is out of range.
BatchPool == InitialEdges \cup {<<n, 0>>}

Batches == UNION {[1..k -> BatchPool] : k \in 0..MaxBatchLen}

InitFrom(adj, src, LL, ncalls) ==
    LET c == Construct(adj, src, LL)
    IN  /\ n = c.n
        /\ L = c.L
        /\ s = c.s
        /\ Dist = c.Dist
        /\ Out = c.Out
        /\ In = c.In
        /\ Scan = c.Scan
        /\ Parent = c.Parent
        /\ Tv = c.Tv
        /\ alive = c.alive
        /\ pc = "idle"
        /\ delEdges = <<>>
        /\ idx = 0
        /\ parentDeleted = [v \in 0..(c.n - 1) |-> FALSE]
        /\ treeEdges = <<>>
        /\ tidx = 0
        /\ U = {}
        /\ Unew = {}
        /\ i = 0
        /\ todo = {}
        /\ calls = ncalls
        /\ nbatch = 0
        /\ pre = [Dist |-> c.Dist, Out |-> c.Out, Scan |-> c.Scan,
                  Parent |-> c.Parent, Tv |-> c.Tv, alive |-> c.alive]

\* No call has been made on ps.
NoCall == [op |-> "none"]

\* The runs of DynamicSSSP leave ps alone: it stays as constructed.
PSUnused ==
    /\ ps = MkPS(1, NilNode)
    /\ last = NoCall
    /\ contents = [q \in {} |-> 0]
    /\ valid = TRUE
    /\ nupd = 0

Init ==
    /\ \E g \in Graphs, LL \in 0..MaxL : InitFrom(AdjOf(g, N), 0, LL, MaxBatches)
    /\ PSUnused

config == <<n, L, s, In, calls>>
hist == <<nbatch, pre>>

\* batchDelete(D) is called: the locals are constructed.
StartBatch(D) ==
    /\ pc = "idle"
    /\ nbatch < calls
    /\ pc' = "pass1"
    /\ delEdges' = D
    /\ idx' = 1
    /\ parentDeleted' = [v \in 0..(n - 1) |-> FALSE]
    /\ treeEdges' = <<>>
    /\ nbatch' = nbatch + 1
    /\ pre' = Snapshot
    /\ UNCHANGED <<psVars, config, Dist, Out, Scan, Parent, Tv, alive, tidx, U, Unew, i, todo>>

\* One iteration of the first-pass loop.
Pass1Step ==
    /\ pc = "pass1"
    /\ idx <= Len(delEdges)
    /\ SetFields(Pass1Body(Fields, delEdges[idx]))
    /\ idx' = idx + 1
    /\ UNCHANGED <<psVars, config, hist, pc, delEdges, tidx, i, todo>>

\* The first-pass loop ends; the second-pass loop begins.
Pass1Done ==
    /\ pc = "pass1"
    /\ idx > Len(delEdges)
    /\ pc' = "pass2"
    /\ tidx' = 1
    /\ UNCHANGED <<psVars, config, hist, Dist, Out, Scan, Parent, Tv, alive, delEdges, idx,
                   parentDeleted, treeEdges, U, Unew, i, todo>>

\* One iteration of the second-pass loop.
Pass2Step ==
    /\ pc = "pass2"
    /\ tidx <= Len(treeEdges)
    /\ SetFields(Pass2Body(Fields, treeEdges[tidx]))
    /\ tidx' = tidx + 1
    /\ UNCHANGED <<psVars, config, hist, pc, delEdges, idx, i, todo>>

\* The second-pass loop ends; U is constructed empty and phase 0 begins.
Pass2Done ==
    /\ pc = "pass2"
    /\ tidx > Len(treeEdges)
    /\ pc' = "loop"
    /\ U' = {}
    /\ Unew' = {}
    /\ i' = 0
    /\ todo' = {}
    /\ UNCHANGED <<psVars, config, hist, Dist, Out, Scan, Parent, Tv, alive, delEdges, idx,
                   parentDeleted, treeEdges, tidx>>

\* One iteration of "for (int v : U)"; an unordered_set fixes no order.
PhaseVisit(v) ==
    /\ pc = "loop"
    /\ v \in todo
    /\ SetFields(PhaseBody(Fields, v))
    /\ todo' = todo \ {v}
    /\ UNCHANGED <<psVars, config, hist, pc, delEdges, idx, tidx, i>>

\* The loop over U is over: line 12 seeds Unew.
PhaseSeed ==
    /\ pc = "loop"
    /\ todo = {}
    /\ SetFields(SeedBody(Fields, i))
    /\ pc' = "final"
    /\ UNCHANGED <<psVars, config, hist, delEdges, idx, tidx, i, todo>>

\* Variant of PhaseFinalize that leaves the phase loop as soon as U is empty.
PhaseFinalizeEarlyExit ==
    /\ pc = "final"
    /\ SetFields(FinalizeBody(Fields, i))
    /\ i' = i + 1
    /\ IF i + 1 <= L /\ Unew # {}
       THEN pc' = "loop" /\ todo' = Unew
       ELSE pc' = "return" /\ todo' = {}
    /\ UNCHANGED <<psVars, config, hist, delEdges, idx, tidx>>

\* Lines 13-15, then the next phase (or the end of the phase loop).
PhaseFinalize ==
    /\ pc = "final"
    /\ SetFields(FinalizeBody(Fields, i))
    /\ i' = i + 1
    /\ IF i + 1 <= L
       THEN pc' = "loop" /\ todo' = Unew
       ELSE pc' = "return" /\ todo' = {}
    /\ UNCHANGED <<psVars, config, hist, delEdges, idx, tidx>>

\* batchDelete returns: its locals are destroyed.
Return ==
    /\ pc = "return"
    /\ pc' = "idle"
    /\ idx' = 0
    /\ parentDeleted' = [v \in 0..(n - 1) |-> FALSE]
    /\ treeEdges' = <<>>
    /\ tidx' = 0
    /\ U' = {}
    /\ Unew' = {}
    /\ i' = 0
    /\ delEdges' = <<>>
    /\ pre' = Snapshot
    /\ UNCHANGED <<psVars, config, nbatch, Dist, Out, Scan, Parent, Tv, alive, todo>>

Next ==
    \/ \E D \in Batches : StartBatch(D)
    \/ Pass1Step
    \/ Pass1Done
    \/ Pass2Step
    \/ Pass2Done
    \/ \E v \in todo : PhaseVisit(v)
    \/ PhaseSeed
    \/ PhaseFinalize
    \/ Return

Spec == Init /\ [][Next]_vars

(***************************************************************************)
(* The 5-vertex cycle of main(): one batchDelete call on it.               *)
(***************************************************************************)
CycleAdj ==
    [u \in 0..4 |-> CASE u = 0 -> <<1, 4>>
                      [] u = 1 -> <<0, 2>>
                      [] u = 2 -> <<1, 3>>
                      [] u = 3 -> <<2, 4>>
                      [] u = 4 -> <<0, 3>>]

InitCycle == InitFrom(CycleAdj, 0, 3, 1) /\ PSUnused

SpecCycle == InitCycle /\ [][Next]_vars

(***************************************************************************)
(* Graphs on three vertices with edges into the source, out of it and a    *)
(* self-loop on it.                                                        *)
(***************************************************************************)
SourceEdges ==
    {<<0, 0>>, <<0, 1>>, <<1, 0>>, <<1, 2>>, <<2, 0>>, <<2, 1>>}

InitSource ==
    /\ \E g \in SUBSET SourceEdges, LL \in 0..MaxL :
          InitFrom(AdjOf(g, 3), 0, LL, MaxBatches)
    /\ PSUnused

SpecSource == InitSource /\ [][Next]_vars

(***************************************************************************)
(* A PriorityStructure<int> driven through its public API, as main() of    *)
(* priority_struct_TAS.cpp drives one: by a driver that tries every small  *)
(* argument on a structure of MaxP priorities, and by main()'s own         *)
(* structure of 1000 priorities.                                           *)
(***************************************************************************)
MaxP == 4           \* priorities of the small structure
MaxElems == 3       \* pairs handed to initialize on the small structure
NumValues == 2      \* values the small driver hands to updateValue
MaxUpdates == 2     \* updateValue / updatePriority calls after one initialize
MaxPred == 3        \* values a nextWith predicate accepts

MainMaxP == 1000    \* int maxP = 1000 in main()

\* The first eight pairs main() pushes; the first five are the documented
\* example.
MainElems ==
    <<<<100, 10>>, <<200, 150>>, <<300, 999>>, <<400, 500>>, <<500, 1>>,
      <<600, 750>>, <<700, 250>>, <<800, 900>>>>

MainExample == SubSeq(MainElems, 1, 5)

PSValues == 0..(NumValues - 1)

\* Arguments of initialize: on the small structure every list of at most
\* MaxElems pairs whose a-th value is a - 1 (as DynamicSSSP stores vertex
\* ids), priorities 0 and MaxP + 1 and repeated priorities included.
ElemsPool(m) ==
    IF m = MainMaxP THEN {MainExample, MainElems}
    ELSE UNION {{[a \in 1..k |-> <<a - 1, pr[a]>>] : pr \in [1..k -> 0..(MaxP + 1)]} :
                   k \in 0..MaxElems}

RankPool == 0..(size(ps) + 1)

PrioPool ==
    IF ps.maxP = MainMaxP THEN {0, 10, 150, 501, MainMaxP + 1} ELSE 0..(MaxP + 1)

ValuePool == IF ps.maxP = MainMaxP THEN {} ELSE PSValues

StoredValues == {query(ps, j) : j \in 1..size(ps)}

\* A predicate is the set of values it accepts.
PredPool == {S \in SUBSET StoredValues : Cardinality(S) <= MaxPred}

PredOf(S) == [w \in StoredValues |-> w \in S]

EmptyMap == [q \in {} |-> 0]

\* The input constraint of initialize: priorities distinct, each in 1..maxP.
WellFormed(m, elems) ==
    /\ \A a \in DOMAIN elems : elems[a][2] \in 1..m
    /\ \A a, b \in DOMAIN elems : a # b => elems[a][2] # elems[b][2]

MapOf(elems) ==
    [q \in {elems[a][2] : a \in DOMAIN elems} |->
        (CHOOSE e \in SeqRange(elems) : e[2] = q)[1]]

\* The priority at rank k of the map c (rank 1 = largest priority).
PriorityAtRank(c, k) ==
    CHOOSE q \in DOMAIN c : Cardinality({r \in DOMAIN c : r > q}) = k - 1

\* The driver goes on from a call that changed ps; a call that only looks at
\* ps, or throws, ends the run (it leaves nothing to go on from that the run
\* did not have before it).
Ready ==
    /\ last.op \in {"initialize", "updateValue", "updatePriority"}
    /\ ~last.thrown

dsVars == <<n, L, s, Dist, Out, In, Scan, Parent, Tv, alive, pc, delEdges, idx,
            parentDeleted, treeEdges, tidx, U, Unew, i, todo, calls, nbatch, pre>>

\* ps.initialize(elems), the driver's first call; items is what std::sort
\* made of elems.
PSInitialize ==
    /\ last.op = "none"
    /\ \E elems \in ElemsPool(ps.maxP) : \E items \in Sortings(elems) :
          /\ ps' = initializeSorted(ps.maxP, elems, items)
          /\ last' = [op |-> "initialize", elems |-> elems, thrown |-> FALSE,
                      before |-> ps, was |-> contents]
          /\ valid' = WellFormed(ps.maxP, elems)
          /\ contents' = IF WellFormed(ps.maxP, elems) THEN MapOf(elems)
                         ELSE EmptyMap
    /\ nupd' = 0
    /\ UNCHANGED dsVars

\* ps.query(k)
PSQuery ==
    /\ Ready
    /\ \E k \in RankPool :
          LET r == query(ps, k)
          IN  last' = [op |-> "query", k |-> k, thrown |-> (r = Thrown),
                       value |-> r, before |-> ps, was |-> contents]
    /\ UNCHANGED <<dsVars, ps, contents, valid, nupd>>

\* ps.find(p)
PSFind ==
    /\ Ready
    /\ \E p \in PrioPool :
          LET r == find(ps, p)
          IN  last' = [op |-> "find", p |-> p, thrown |-> r.thrown, res |-> r,
                       before |-> ps, was |-> contents]
    /\ UNCHANGED <<dsVars, ps, contents, valid, nupd>>

\* ps.nextWith(k, f), f accepting the values of S
PSNextWith ==
    /\ Ready
    /\ \E k \in RankPool : \E S \in PredPool :
          last' = [op |-> "nextWith", k |-> k, S |-> S, thrown |-> FALSE,
                   rank |-> nextWith(ps, k, PredOf(S)), before |-> ps,
                   was |-> contents]
    /\ UNCHANGED <<dsVars, ps, contents, valid, nupd>>

\* ps.updateValue(k, v), on a structure whose initialize met its input
\* constraint
PSUpdateValue ==
    /\ Ready
    /\ valid
    /\ nupd < MaxUpdates
    /\ \E k \in RankPool : \E v \in ValuePool :
          LET r == updateValue(ps, k, v)
          IN  /\ ps' = r.ps
              /\ last' = [op |-> "updateValue", k |-> k, v |-> v,
                          thrown |-> r.thrown, before |-> ps, was |-> contents]
              /\ contents' = IF k \in 1..Cardinality(DOMAIN contents)
                             THEN [contents EXCEPT ![PriorityAtRank(contents, k)] = v]
                             ELSE contents
    /\ nupd' = nupd + 1
    /\ UNCHANGED <<dsVars, valid>>

\* ps.updatePriority(k, newP), on a structure whose initialize met its input
\* constraint
PSUpdatePriority ==
    /\ Ready
    /\ valid
    /\ nupd < MaxUpdates
    /\ \E k \in RankPool : \E newP \in PrioPool :
          LET r == updatePriority(ps, k, newP)
          IN  /\ ps' = r.ps
              /\ last' = [op |-> "updatePriority", k |-> k, p |-> newP,
                          thrown |-> r.thrown, before |-> ps, was |-> contents]
              /\ contents' =
                   IF /\ k \in 1..Cardinality(DOMAIN contents)
                      /\ newP \in (1..ps.maxP) \ DOMAIN contents
                   THEN LET old == PriorityAtRank(contents, k)
                        IN  [q \in (DOMAIN contents \ {old}) \cup {newP} |->
                                IF q = newP THEN contents[old] ELSE contents[q]]
                   ELSE contents
    /\ nupd' = nupd + 1
    /\ UNCHANGED <<dsVars, valid>>

NextPS ==
    \/ PSInitialize
    \/ PSQuery
    \/ PSFind
    \/ PSNextWith
    \/ PSUpdateValue
    \/ PSUpdatePriority

\* PriorityStructure<int> ps(maxP): no DynamicSSSP call is ever made.
InitPS ==
    /\ InitFrom(AdjOf({}, 1), 0, 0, 0)
    /\ \E m \in {MaxP, MainMaxP} : ps = MkPS(m, NilNode)
    /\ last = NoCall
    /\ contents = EmptyMap
    /\ valid = TRUE
    /\ nupd = 0

SpecPS == InitPS /\ [][NextPS]_vars

(***************************************************************************)
(* Vocabulary of the properties.                                           *)
(***************************************************************************)
Vertices == 0..(n - 1)

\* A stable point: after construction or after a batchDelete has finished
\* its last phase.
Stable == pc \in {"idle", "return"}

\* A batchDelete call has just finished its work (locals still in scope).
Returning == pc = "return"

\* Vertices joined to s by a walk of at most k live edges.
RECURSIVE Within(_)
Within(k) ==
    IF k = 0 THEN {s}
    ELSE Within(k - 1) \cup
         {v \in Vertices : \E u \in Within(k - 1) : <<u, v>> \in alive}

\* Length of a shortest live path from s to v, capped at the sentinel L + 1.
ShortestLen(v) ==
    IF v \in Within(L) THEN Min({k \in 0..L : v \in Within(k)}) ELSE L + 1

\* A child list as a multiset.
BagOf(q) == [c \in Vertices |-> Cardinality({k \in DOMAIN q : q[k] = c})]

\* The final state the laws compare: child lists count as multisets.
View(f) ==
    [alive |-> f.alive, Dist |-> f.Dist, Parent |-> f.Parent, Scan |-> f.Scan,
     Out |-> f.Out, Children |-> [v \in Vertices |-> BagOf(f.Tv[v])]]

\* C1: at every stable point Dist(v) is the shortest live path length from s,
\* or the sentinel L+1 when that length exceeds L.
C1_Optimality ==
    Stable => \A v \in Vertices : Dist[v] = ShortestLen(v)

\* A call has raised one distance to a larger value within L and another to
\* the sentinel.
C1_Witness ==
    /\ Returning
    /\ \E v \in Vertices : pre.Dist[v] < Dist[v] /\ Dist[v] <= L
    /\ \E v \in Vertices : pre.Dist[v] <= L /\ Dist[v] = L + 1

\* C2: at every stable point each v # s within distance L has a parent w with
\* (w,v) live, Dist(w) = Dist(v) - 1 and v in Children(w).
C2_TreeConsistency ==
    Stable =>
        \A v \in Vertices :
            (v # s /\ Dist[v] <= L) =>
                /\ Parent[v] \in Vertices
                /\ encodeEdge(Parent[v], v) \in alive
                /\ Dist[Parent[v]] = Dist[v] - 1
                /\ v \in SeqRange(Tv[Parent[v]])

\* A call has deleted a tree edge and given its head a new parent within L.
C2_Witness ==
    /\ Returning
    /\ \E v \in Vertices :
          /\ Dist[v] <= L
          /\ Parent[v] # pre.Parent[v]
          /\ encodeEdge(pre.Parent[v], v) \notin alive

\* C3: at every stable point, for every v the multiset of u with
\* Parent(u) = v equals the multiset Children(v).
C3_ChildrenParentBijection ==
    Stable =>
        \A v \in Vertices :
            BagOf(Tv[v]) = [c \in Vertices |-> IF Parent[c] = v THEN 1 ELSE 0]

\* C4: after every batchDelete each vertex at the sentinel distance has no
\* parent and is in no child list.
C4_SentinelDetached ==
    (Stable /\ nbatch >= 1) =>
        \A v \in Vertices :
            Dist[v] = L + 1 =>
                /\ Parent[v] = NoParent
                /\ \A w \in Vertices : v \notin SeqRange(Tv[w])

\* C5: Dist(v) never decreases, neither over a whole call nor in any single
\* write, and always lies in 0..L+1.
C5_DistMonotone ==
    /\ [](/\ \A v \in Vertices : Dist[v] \in 0..(L + 1)
          /\ Returning => \A v \in Vertices : Dist[v] >= pre.Dist[v])
    /\ [][\A v \in Vertices : Dist'[v] >= Dist[v]]_vars

\* One call has raised a distance twice (in two successive phases).
C5_Witness ==
    /\ Returning
    /\ \E v \in Vertices : Dist[v] >= pre.Dist[v] + 2

\* C6: a call removes exactly the edges of its batch from the live-edge set,
\* and only the first pass changes the live-edge set.
C6_LiveEdgeFrame ==
    /\ [](Returning => alive = pre.alive \ SeqRange(delEdges))
    /\ [][alive' # alive => pc = "pass1"]_vars

\* A call has removed a tree edge and a non-tree edge, kept another edge, and
\* its batch also named a pair that was not live.
C6_Witness ==
    /\ Returning
    /\ \E e \in pre.alive \ alive : pre.Parent[e[2]] = e[1]
    /\ \E e \in pre.alive \ alive : pre.Parent[e[2]] # e[1]
    /\ alive # {}

\* C7: running the same batch again changes nothing, a batch without a live
\* edge changes nothing, and no query throws.
C7_Idempotent ==
    Returning =>
        /\ View(batchDelete(Snapshot, delEdges)) = View(Snapshot)
        /\ (SeqRange(delEdges) \cap pre.alive = {}) => Snapshot = pre
        /\ \A v \in Vertices : Parent[v] # Thrown

\* A later call whose batch holds only edges an earlier call deleted, the
\* earlier call having changed distances.
C7_Witness ==
    /\ Returning
    /\ delEdges # <<>>
    /\ SeqRange(delEdges) \subseteq InitialEdges \ pre.alive
    /\ Dist # bfs_array(AdjOf(InitialEdges, n), s, L)

\* C8: batchDelete(A); batchDelete(B) ends in the same state as
\* batchDelete(A u B), for the batch A just run and every batch B.
C8_UnionLaw ==
    Returning =>
        \A B \in Batches :
            View(batchDelete(Snapshot, B)) = View(batchDelete(pre, delEdges \o B))

\* The batch as a duplicate-free list in increasing order of (u, v).
Canonical(D) ==
    LET S == SeqRange(D)
        key(e) == e[1] * (n + 1) + e[2]
    IN  [k \in 1..Cardinality(S) |->
            CHOOSE e \in S : Cardinality({d \in S : key(d) < key(e)}) = k - 1]

\* C9: the result of a call does not depend on the order of the batch list,
\* on repeated entries, or on the order in which U is visited.
C9_OrderIndependent ==
    Returning => View(Snapshot) = View(batchDelete(pre, Canonical(delEdges)))

\* A phase with two suspects still to visit, in a call whose batch list is
\* not in canonical order.
C9_Witness ==
    /\ pc = "loop"
    /\ Cardinality(todo) >= 2
    /\ delEdges # Canonical(delEdges)

\* C10 as stated: on the 5-cycle with L = 3, Dist is [0,1,2,2,1] at first and
\* [0,2,1,2,1] after batchDelete({(0,1),(1,0)}).
C10_CycleAsStated ==
    /\ (pc = "idle" /\ nbatch = 0) => Dist = [v \in 0..4 |-> <<0, 1, 2, 2, 1>>[v + 1]]
    /\ (Returning /\ SeqRange(delEdges) = {<<0, 1>>, <<1, 0>>}) =>
           Dist = [v \in 0..4 |-> <<0, 2, 1, 2, 1>>[v + 1]]

\* C10 amended: on the 5-cycle with L = 3, Dist is [0,1,2,2,1] at first and
\* [0,4,3,2,1] after batchDelete({(0,1),(1,0)}): vertex 1 is beyond L.
C10_CycleAmended ==
    /\ (pc = "idle" /\ nbatch = 0) => Dist = [v \in 0..4 |-> <<0, 1, 2, 2, 1>>[v + 1]]
    /\ (Returning /\ SeqRange(delEdges) = {<<0, 1>>, <<1, 0>>}) =>
           Dist = [v \in 0..4 |-> <<0, 4, 3, 2, 1>>[v + 1]]

\* The call batchDelete({(0,1),(1,0)}) has finished on the 5-cycle.
C10_Witness ==
    /\ Returning
    /\ n = 5
    /\ delEdges = <<<<0, 1>>, <<1, 0>>>>

\* An entry of a delete batch that names a vertex outside [0, n).
OutOfRange(e) == e[1] < 0 \/ e[1] >= n \/ e[2] < 0 \/ e[2] >= n

\* C11: a batchDelete whose batch holds an entry with a vertex outside [0, n)
\* leaves the structure in its pre-call state: no edge of that batch is
\* applied.  (batchDelete has no throw statement; the entry is skipped and
\* the rest of the batch is applied.)
C11_OutOfRangeRejected ==
    (Returning /\ \E k \in DOMAIN delEdges : OutOfRange(delEdges[k]))
        => Snapshot = pre

\* Vertices joined to src by a walk of at most k edges of adj.
RECURSIVE Reach(_, _, _)
Reach(adj, src, k) ==
    IF k = 0 THEN {src}
    ELSE LET R == Reach(adj, src, k - 1)
         IN  R \cup UNION {SeqRange(adj[u]) : u \in R}

\* Length of a shortest path of adj from src to v, or LL + 1 when it exceeds LL.
PathLen(adj, src, v, LL) ==
    IF v \in Reach(adj, src, LL)
    THEN Min({k \in 0..LL : v \in Reach(adj, src, k)})
    ELSE LL + 1

\* The graph of main() in scan.cpp.
ScanAdj ==
    [u \in 0..5 |-> CASE u = 0 -> <<1, 2>>
                      [] u = 1 -> <<3>>
                      [] u = 2 -> <<3, 4>>
                      [] u = 3 -> <<5>>
                      [] OTHER -> <<>>]

\* auto res = bfs_array(adj, 0, 2) in main() of scan.cpp.
ScanDist == bfs_array(ScanAdj, 0, 2)

\* C12: bfs_array(adj, src, LL) gives every vertex its shortest-path length
\* from src when that is at most LL, and LL + 1 otherwise, for every source
\* and every LL >= 0 (LL = 0 included); checked on the out-adjacency of every
\* stable state and on the graph of scan.cpp with L = 2.
C12_BfsBounded ==
    /\ Stable =>
          \A src \in Vertices, LL \in 0..MaxL :
              bfs_array(Out, src, LL) = [v \in Vertices |-> PathLen(Out, src, v, LL)]
    /\ ScanDist = [v \in DOMAIN ScanAdj |-> PathLen(ScanAdj, 0, v, 2)]

\* The constructor has just applied bfs_array with L >= 1: one vertex lies at
\* distance exactly L, another is reachable only by a longer path and has the
\* sentinel, and with LL = 0 an out-neighbour of s has the value 1.
C12_Witness ==
    /\ pc = "idle" /\ nbatch = 0 /\ L >= 1
    /\ Dist = bfs_array(Out, s, L)
    /\ \E v \in Vertices : Dist[v] = L
    /\ \E v \in Reach(Out, s, n) : Dist[v] = L + 1
    /\ \E v \in SeqRange(Out[s]) : v # s /\ bfs_array(Out, s, 0)[v] = 1

\* C13: nextWith(k, pred) with 1 <= k <= size + 1 returns the smallest rank
\* j with k <= j <= size and pred(query(j)) true, or size + 1 when there is
\* none, and leaves the structure as it was.
C13_NextWith ==
    (last.op = "nextWith" /\ last.k \in 1..(size(ps) + 1)) =>
        /\ last.rank = Min({j \in last.k..size(ps) : query(ps, j) \in last.S}
                           \cup {size(ps) + 1})
        /\ ps = last.before

\* On a structure of size 8 with the predicate selecting ranks 3 and 6,
\* nextWith(4, pred) has returned 6: the scan went through the ranges
\* [4,4] and [5,6].
C13_Witness ==
    /\ last.op = "nextWith"
    /\ size(ps) = 8
    /\ last.S = {query(ps, 3), query(ps, 6)}
    /\ Cardinality(last.S) = 2
    /\ last.k = 4
    /\ last.rank = 6

\* ps was built by an initialize with distinct in-range priorities, followed
\* by updateValue and updatePriority calls only.
Built == valid /\ last.op # "none"

\* C14: in every structure built by initialize with distinct in-range
\* priorities and any updateValue / updatePriority calls, find of the
\* priority at rank k returns rank k for every k in 1..size, and for every
\* present priority p, query(find(p).rank) is the value stored at p.
C14_RoundTrip ==
    Built =>
        /\ \A k \in 1..size(ps) :
              /\ k <= Cardinality(DOMAIN contents)
              /\ ~find(ps, PriorityAtRank(contents, k)).thrown
              /\ find(ps, PriorityAtRank(contents, k)).rank = k
        /\ \A p \in DOMAIN contents :
              /\ ~find(ps, p).thrown
              /\ query(ps, find(ps, p).rank) = contents[p]

\* A second update has just re-keyed an element of a structure of at least
\* two elements to a priority that changed its rank.
C14_Witness ==
    /\ Built
    /\ nupd = 2
    /\ last.op = "updatePriority" /\ ~last.thrown
    /\ size(ps) >= 2
    /\ find(ps, last.p).rank # last.k

\* C15: in a structure with distinct priorities, size() is the number of
\* stored elements and query(k), for every k in 1..size, is the value of the
\* element with the k-th largest priority.
C15_QueryByRank ==
    Built =>
        /\ size(ps) = Cardinality(DOMAIN contents)
        /\ \A k \in 1..size(ps) :
              query(ps, k) = contents[PriorityAtRank(contents, k)]

\* query(size) has just returned the value of the smallest of at least
\* three priorities, which differs from the value of the largest one.
C15_Witness ==
    /\ Built
    /\ last.op = "query" /\ ~last.thrown
    /\ size(ps) >= 3
    /\ last.k = size(ps)
    /\ last.value = contents[PriorityAtRank(contents, size(ps))]
    /\ last.value # contents[PriorityAtRank(contents, 1)]

\* ps holds what initialize made of the five documented pairs
\* {(100,10),(200,150),(300,999),(400,500),(500,1)} with maxP = 1000.
AfterExample ==
    /\ ps.maxP = MainMaxP
    /\ last.op # "none"
    /\ nupd = 0
    /\ contents = MapOf(MainExample)

\* C16 as stated: after initialize with the five documented pairs,
\* query(1) = 300, query(5) = 500 and find(150) returns value 200 with rank 2.
C16_ExampleAsStated ==
    AfterExample =>
        /\ query(ps, 1) = 300
        /\ query(ps, 5) = 500
        /\ find(ps, 150) = [thrown |-> FALSE, value |-> 200, rank |-> 2]

\* C16 amended: after initialize with the five documented pairs,
\* query(1) = 300, query(5) = 500 and find(150) returns value 200 with rank 3
\* (the priorities 999 and 500 are higher, so 150 is the third largest).
C16_ExampleAmended ==
    AfterExample =>
        /\ query(ps, 1) = 300
        /\ query(ps, 5) = 500
        /\ find(ps, 150) = [thrown |-> FALSE, value |-> 200, rank |-> 3]

\* find(150) has just been called on the structure of the documented pairs.
C16_Witness ==
    /\ AfterExample
    /\ last.op = "find"
    /\ last.p = 150
    /\ ~last.thrown

\* The last call was updatePriority(k, p') with k a valid rank and p' a
\* priority in 1..maxP that no element had.
RekeyCall ==
    /\ last.op = "updatePriority"
    /\ last.k \in 1..size(last.before)
    /\ last.p \in (1..ps.maxP) \ DOMAIN last.was

\* C17: updatePriority(k, p') with valid k and free in-range p' re-keys
\* exactly the element at rank k: find(p') returns its value with its new
\* rank, find of its old priority throws, size is unchanged, and every other
\* element is found at its priority with its value (and nothing else is).
C17_Rekey ==
    RekeyCall =>
        LET old  == PriorityAtRank(last.was, last.k)
            kept == DOMAIN last.was \ {old}
        IN  /\ ~last.thrown
            /\ find(ps, last.p) =
                  [thrown |-> FALSE, value |-> last.was[old],
                   rank |-> 1 + Cardinality({q \in kept : q > last.p})]
            /\ find(ps, old).thrown
            /\ size(ps) = size(last.before)
            /\ \A q \in kept :
                  /\ ~find(ps, q).thrown
                  /\ find(ps, q).value = last.was[q]
            /\ \A q \in (1..ps.maxP) \ (kept \cup {last.p}) : find(ps, q).thrown

\* The documented call: on the structure of the five documented pairs the
\* element of priority 10 (value 100) has just been re-keyed to 501, which
\* lifts it from rank 4 to rank 2.
C17_Witness ==
    /\ RekeyCall
    /\ ps.maxP = MainMaxP
    /\ last.was = MapOf(MainExample)
    /\ last.k = 4
    /\ last.p = 501
    /\ find(ps, 501).rank = 2

\* C18: initialize reports an error whenever two pairs share a priority or a
\* priority lies outside 1..maxP, and the structure is then as it was before
\* the call.  (initialize of priority_struct_TAS.cpp validates nothing.)
C18_InitializeRejects ==
    (last.op = "initialize" /\ ~WellFormed(ps.maxP, last.elems)) =>
        /\ last.thrown
        /\ ps = last.before

\* The last call broke the input constraint of the operation it made.
BadCall ==
    \/ /\ last.op \in {"query", "updateValue", "updatePriority"}
       /\ last.k \notin 1..size(last.before)
    \/ /\ last.op = "updatePriority"
       /\ last.p \notin (1..ps.maxP) \ DOMAIN last.was
    \/ /\ last.op = "find"
       /\ last.p \notin 1..ps.maxP
    \/ /\ last.op = "find"
       /\ valid
       /\ last.p \notin DOMAIN last.was

\* C19: query, updateValue and updatePriority with a rank outside 1..size,
\* find of a priority outside 1..maxP or of an absent priority, and
\* updatePriority to an occupied or out-of-range priority each throw and leave
\* the structure exactly as it was before the call.
C19_ErrorsLeaveState ==
    BadCall => (last.thrown /\ ps = last.before)

\* updatePriority has just been refused on a structure of at least two
\* elements because the new priority is taken, the rank being valid.
C19_Witness ==
    /\ last.op = "updatePriority"
    /\ last.thrown
    /\ last.k \in 1..size(last.before)
    /\ last.p \in DOMAIN last.was
    /\ size(ps) >= 2

\* C20: in every state, after construction and during and after every
\* batchDelete (batches deleting edges into s, out of s or a self-loop on s
\* included), Dist(s) = 0, Parent(s) = -1, and s is neither in a suspect set
\* nor in a Children list.
C20_SourceFixed ==
    /\ Dist[s] = 0
    /\ Parent[s] = NoParent
    /\ s \notin U \cup Unew
    /\ \A v \in Vertices : s \notin SeqRange(Tv[v])

\* A call has deleted a self-loop on s, an edge into s from another vertex
\* and (in this call or the one before) an edge out of s, and has raised a
\* distance.
C20_Witness ==
    /\ Returning
    /\ <<s, s>> \in InitialEdges \ alive
    /\ \E u \in Vertices \ {s} : <<u, s>> \in pre.alive \ alive
    /\ \E v \in Vertices \ {s} : <<s, v>> \in InitialEdges \ alive
    /\ \E v \in Vertices : Dist[v] > bfs_array(AdjOf(InitialEdges, n), s, L)[v]

\* The 6-vertex DAG of main: 0->1, 0->2, 1->3, 2->3, 2->4, 3->5.
DagAdj ==
    [u \in 0..5 |-> CASE u = 0 -> <<1, 2>>
                      [] u = 1 -> <<3>>
                      [] u = 2 -> <<3, 4>>
                      [] u = 3 -> <<5>>
                      [] u = 4 -> <<>>
                      [] u = 5 -> <<>>]

\* main's first structure: the DAG with s = 0 and L = 3, one batchDelete.
InitDag == InitFrom(DagAdj, 0, 3, 1) /\ PSUnused

\* The bounded graphs together with main's DAG.
SpecDag == (Init \/ InitDag) /\ [][Next]_vars

\* C21: a batchDelete call that leaves Dist(v) as it was leaves Scan(v) at
\* least as large as it was; and the only step that lowers Scan(v) is the
\* visit of an exhausted v in a phase i, which resets it to 1 and puts v into
\* U_new with Dist(v) = i, so that the phase's finalization raises Dist(v).
C21_ScanMonotone ==
    /\ [](Returning =>
            \A v \in Vertices : Dist[v] = pre.Dist[v] => Scan[v] >= pre.Scan[v])
    /\ [][\A v \in Vertices :
            Scan'[v] < Scan[v] =>
                /\ pc = "loop"
                /\ Scan'[v] = 1
                /\ v \in Unew'
                /\ Dist[v] = i]_vars

\* A call has ended in which one vertex kept its distance and moved its
\* cursor forward while another had its cursor lowered and its distance
\* raised.
C21_Witness ==
    /\ Returning
    /\ \E v \in Vertices : Dist[v] = pre.Dist[v] /\ Scan[v] > pre.Scan[v]
    /\ \E v \in Vertices : Dist[v] > pre.Dist[v] /\ Scan[v] < pre.Scan[v]

\* The values In(v) holds at the ranks below k.
RanksBelow(v, k) == {query(In[v], j) : j \in 1..(Min({k, size(In[v]) + 1}) - 1)}

\* w is a live in-neighbour of v one level above v.
Candidate(w, v) == <<w, v>> \in alive /\ Dist[w] = Dist[v] - 1

\* C22: after construction and after every batchDelete, every v # s with
\* Dist(v) <= L has Parent(v) = In(v).query(Scan(v)), no rank below Scan(v)
\* of In(v) holds a live in-neighbour at distance Dist(v) - 1, and so
\* Parent(v) is the largest-id live in-neighbour at that distance.
C22_ParentAtScan ==
    Stable =>
        \A v \in Vertices \ {s} :
            Dist[v] <= L =>
                /\ Scan[v] \in 1..size(In[v])
                /\ Parent[v] = query(In[v], Scan[v])
                /\ \A w \in RanksBelow(v, Scan[v]) : ~Candidate(w, v)
                /\ Candidate(Parent[v], v)
                /\ \A w \in Vertices : Candidate(w, v) => w <= Parent[v]

\* A call has ended in which a vertex within the bound was given another
\* parent at a rank above 1.
C22_Witness ==
    /\ Returning
    /\ \E v \in Vertices \ {s} :
        /\ Dist[v] <= L
        /\ Parent[v] # pre.Parent[v]
        /\ Scan[v] > 1

\* C23: in every stable state (after construction and after every
\* batchDelete) every vertex v has 1 <= Scan(v) <= size(In(v)) + 1.
C23_ScanInRange ==
    Stable => \A v \in Vertices : Scan[v] \in 1..(size(In[v]) + 1)

\* The running call's batch is the single live tree edge (Parent(v), v), and
\* at the call's start v had another live in-neighbour one level above it.
ReparentCase(v) ==
    /\ pc # "idle"
    /\ delEdges = <<(<<pre.Parent[v], v>>)>>
    /\ <<pre.Parent[v], v>> \in pre.alive
    /\ \E w \in Vertices \ {pre.Parent[v]} :
        <<w, v>> \in pre.alive /\ pre.Dist[w] = pre.Dist[v] - 1

\* C24: a batch that is the single tree edge (Parent(v), v), where v has
\* another live in-neighbour w with Dist(w) = Dist(v) - 1, changes no Dist
\* value, leaves U and U_new empty in every phase, and from the end of Pass 2
\* on v has such a w as parent, is in Children(w) and has its parent-deleted
\* flag cleared. On main's DAG, batchDelete({(2,3)}) ends with
\* Dist = [0,1,1,2,2,3] and Parent(3) = 1.
C24_Reparent ==
    /\ \A v \in Vertices :
        ReparentCase(v) =>
            /\ Dist = pre.Dist
            /\ U = {}
            /\ Unew = {}
            /\ pc \in {"loop", "final", "return"} =>
                /\ Parent[v] \in Vertices \ {pre.Parent[v]}
                /\ <<Parent[v], v>> \in alive
                /\ Dist[Parent[v]] = Dist[v] - 1
                /\ v \in SeqRange(Tv[Parent[v]])
                /\ ~parentDeleted[v]
    /\ (Returning /\ pre.Out = DagAdj /\ delEdges = <<(<<2, 3>>)>>) =>
        /\ Dist = (0 :> 0 @@ 1 :> 1 @@ 2 :> 1 @@ 3 :> 2 @@ 4 :> 2 @@ 5 :> 3)
        /\ Parent[3] = 1

\* batchDelete({(2,3)}) on main's DAG has ended, with 3 re-parented.
C24_Witness ==
    /\ Returning
    /\ pre.Out = DagAdj
    /\ ReparentCase(3)
    /\ pre.Parent[3] = 2
    /\ Parent[3] = 1

\* C25: a vertex whose Dist is the sentinel L + 1 at the start of a
\* batchDelete call is in neither U nor U_new in any phase of that call.
C25_SentinelNeverInU ==
    pc # "idle" =>
        \A v \in Vertices : pre.Dist[v] = L + 1 => v \notin U \cup Unew

\* The phase loop is running.
InPhase == pc \in {"loop", "final"}

\* No vertex was seeded in phase 0, so U was empty at the end of phase 0.
EmptyAfterPhase0 ==
    \A v \in Vertices : ~(pre.Dist[v] = 1 /\ parentDeleted[v])

\* C26 as stated: once U is empty at the end of a phase, no later phase of
\* the call puts a vertex into U or modifies Dist, Parent, Children or Scan.
C26_EarlyTermination ==
    [][(InPhase /\ i >= 1 /\ U = {}) =>
            /\ U' = {}
            /\ Dist' = Dist
            /\ Parent' = Parent
            /\ Tv' = Tv
            /\ Scan' = Scan]_vars

\* C26 amended: batchDelete has no early exit, every call runs all the
\* phases 0..L; a phase that starts with U empty modifies none of Dist,
\* Parent, Children and Scan, but its seeding may fill U again for the next
\* phase.
C26_NoEarlyExit ==
    /\ [](Returning => i = L + 1)
    /\ [][(InPhase /\ U = {}) =>
            /\ Dist' = Dist
            /\ Parent' = Parent
            /\ Tv' = Tv
            /\ Scan' = Scan]_vars

\* A call has ended in which U was empty at the end of phase 0 and a later
\* phase raised a distance.
C26_Witness ==
    /\ Returning
    /\ EmptyAfterPhase0
    /\ \E v \in Vertices : Dist[v] > pre.Dist[v]

\* C27: while phase i runs, every vertex of U has Dist exactly i and every
\* vertex of U_new has Dist i or i + 1 until the finalization, so the write
\* Dist(v) <- i + 1 raises a distance by at most 1 and never lowers it.
C27_PhaseLayers ==
    /\ InPhase =>
        /\ \A v \in U : Dist[v] = i
        /\ \A v \in Unew : Dist[v] \in {i, i + 1}
    /\ Returning => \A v \in U : Dist[v] = i

\* A phase is about to finalize a U_new that holds a vertex at distance i
\* (exhausted) and a vertex at distance i + 1 (a child or a seed).
C27_Witness ==
    /\ pc = "final"
    /\ \E v \in Unew : Dist[v] = i
    /\ \E v \in Unew : Dist[v] = i + 1

\* The priorities of the leaves with present = true below a node that spans
\* lo..hi.
RECURSIVE PresentSet(_, _, _)
PresentSet(node, lo, hi) ==
    IF node.nil THEN {}
    ELSE IF lo = hi THEN (IF node.present THEN {lo} ELSE {})
    ELSE LET mid == (lo + hi) \div 2
         IN  PresentSet(node.left, lo, mid) \cup PresentSet(node.right, mid + 1, hi)

\* Every allocated node below (and including) node stores the number of
\* present leaves of its interval.
RECURSIVE CountsExact(_, _, _)
CountsExact(node, lo, hi) ==
    \/ node.nil
    \/ /\ node.cnt = Cardinality(PresentSet(node, lo, hi))
       /\ lo < hi =>
            LET mid == (lo + hi) \div 2
            IN  /\ CountsExact(node.left, lo, mid)
                /\ CountsExact(node.right, mid + 1, hi)

\* C28: in every structure built by initialize with distinct in-range
\* priorities and any updateValue / updatePriority calls, the count of every
\* allocated node is the number of present leaves of its interval, the
\* present leaves are the stored priorities, and size() is their number.
C28_CountsExact ==
    Built =>
        /\ CountsExact(ps.root, 1, ps.maxP)
        /\ PresentSet(ps.root, 1, ps.maxP) = DOMAIN contents
        /\ size(ps) = Cardinality(PresentSet(ps.root, 1, ps.maxP))

\* A second updatePriority has just moved an element of a structure of at
\* least two elements, leaving an allocated leaf that is no longer present.
C28_Witness ==
    /\ Built
    /\ nupd = 2
    /\ last.op = "updatePriority" /\ ~last.thrown
    /\ size(ps) >= 2
    /\ presentPriority(last.before.root, 1, ps.maxP, PriorityAtRank(last.was, last.k))
    /\ ~presentPriority(ps.root, 1, ps.maxP, PriorityAtRank(last.was, last.k))

\* The number of places at which c stands in the Children lists.
Occurrences(c) ==
    Cardinality(UNION {{<<v, k>> : k \in {j \in 1..Len(Tv[v]) : Tv[v][j] = c}} :
                          v \in Vertices})

\* C29: after construction and after every batchDelete, every entry c of a
\* Children(v) list has Parent(c) = v and no vertex stands more than once in
\* the Children lists.
C29_ChildrenHaveParent ==
    Stable =>
        /\ \A v \in Vertices : \A c \in SeqRange(Tv[v]) : Parent[c] = v
        /\ \A c \in Vertices : Occurrences(c) <= 1

\* A call has ended with a vertex that has a parent without being in that
\* parent's Children list (the converse fails), while some Children list is
\* not empty.
C29_Witness ==
    /\ Returning
    /\ \E c \in Vertices :
        Parent[c] # NoParent /\ c \notin SeqRange(Tv[Parent[c]])
    /\ \E v \in Vertices : Tv[v] # <<>>
====
